---- MODULE Spec2Model ----
(***************************************************************************)
(* A model of galleryinfo_parser.py: parse_gid, parse_galleryinfo (the     *)
(* header/comment line scanner with its tag-list sub-parser) and the       *)
(* lazily computed GalleryInfoParser.pages.                                *)
(*                                                                         *)
(* A Python string is modelled as a sequence of lexemes.  A lexeme is one  *)
(* character (":", ",", " ", "[", "]", "/", a digit, a letter, the line    *)
(* feed) or one fixed word of the file format that the code only ever      *)
(* tests as a whole (a header label, the comment marker, the sentinel, a   *)
(* date).  str.split, str.strip, str.replace, "in", int() and strptime are *)
(* operators over such sequences.                                          *)
(***************************************************************************)
EXTENDS Integers, Sequences, FiniteSets, TLC

VARIABLES
    folder,             \* gallery_folder, the argument of parse_gid / parse_galleryinfo
    pc,                 \* position in the running operation
    outcome,            \* "running", "returned" or the exception that left the operation
    gid,                \* the value parse_gid returned
    lines,              \* the lines read from galleryinfo.txt (line 121)
    idx,                \* number of lines the for loop has taken from `lines`
    comments,           \* the local `comments` flag
    comment_lines,      \* the local `comment_lines` list
    bound,              \* the locals among title, upload_time, ... that are bound
    title, upload_time, upload_account, download_time, tags,
    galleries_comments, \* the local `galleries_comments` (line 165)
    result,             \* <<>> or <<record>>: what parse_galleryinfo returned
    nfiles,             \* SpecPages: regular files now in the gallery folder
    _pages,             \* SpecPages: GalleryInfoParser._pages
    reads,              \* SpecPages: the values the reads of `pages` returned, in order
    counted             \* SpecPages: calls of count_files_in_directory so far

vars == <<folder, pc, outcome, gid, lines, idx, comments, comment_lines, bound,
          title, upload_time, upload_account, download_time, tags,
          galleries_comments, result, nfiles, _pages, reads, counted>>

scanvars == <<lines, idx, comments, comment_lines, bound, title, upload_time,
              upload_account, download_time, tags, galleries_comments, result>>

pagevars == <<nfiles, _pages, reads, counted>>

-----------------------------------------------------------------------------
(* Bounds of the model. *)

MaxNameLen == 5

MaxTagLen == 5

MaxLines == 3

MaxFiles == 3

MaxReads == 4

\* the value of _pages that stands for "not yet counted" (line 76)
NotComputed == -1

-----------------------------------------------------------------------------
(* Strings. *)

RECURSIVE SeqsUpTo(_, _)
\* All sequences over S of length at most n.
SeqsUpTo(S, n) ==
    IF n = 0 THEN {<<>>}
    ELSE LET P == SeqsUpTo(S, n - 1)
         IN  P \cup {Append(p, x) : p \in {q \in P : Len(q) = n - 1}, x \in S}

\* `c in s`
Contains(s, c) == \E i \in 1..Len(s) : s[i] = c

\* s.find(c), 1-based; 0 when absent
Find(s, c) ==
    IF Contains(s, c) THEN CHOOSE i \in 1..Len(s) : s[i] = c /\ \A j \in 1..(i - 1) : s[j] # c
    ELSE 0

\* s.rfind(c), 1-based; 0 when absent
RFind(s, c) ==
    IF Contains(s, c) THEN CHOOSE i \in 1..Len(s) : s[i] = c /\ \A j \in (i + 1)..Len(s) : s[j] # c
    ELSE 0

RECURSIVE LStrip(_, _)
LStrip(s, c) == IF s # <<>> /\ Head(s) = c THEN LStrip(Tail(s), c) ELSE s

RECURSIVE RStrip(_, _)
RStrip(s, c) ==
    IF s # <<>> /\ s[Len(s)] = c THEN RStrip(SubSeq(s, 1, Len(s) - 1), c) ELSE s

\* s.strip(): leading and trailing white space removed
Strip(s) == RStrip(LStrip(s, " "), " ")

\* s.strip("\n")
StripNewlines(s) == RStrip(LStrip(s, "\n"), "\n")

RECURSIVE Split(_, _)
\* s.split(c): always at least one piece
Split(s, c) ==
    IF ~Contains(s, c) THEN <<s>>
    ELSE LET i == Find(s, c)
         IN  <<SubSeq(s, 1, i - 1)>> \o Split(SubSeq(s, i + 1, Len(s)), c)

\* s.split(c, 1) of a string that contains c
SplitFirst(s, c) ==
    LET i == Find(s, c) IN <<SubSeq(s, 1, i - 1), SubSeq(s, i + 1, Len(s))>>

\* s.replace(c, "")
Remove(s, c) == SelectSeq(s, LAMBDA x : x # c)

RECURSIVE Join(_, _)
\* c.join(ss)
Join(ss, c) ==
    IF ss = <<>> THEN <<>>
    ELSE IF Len(ss) = 1 THEN ss[1]
    ELSE ss[1] \o <<c>> \o Join(Tail(ss), c)

Digits == {"0", "1"}

DigitVal(d) == IF d = "0" THEN 0 ELSE 1

RECURSIVE DigitsValue(_)
\* the decimal value of a sequence of digits
DigitsValue(ds) ==
    IF ds = <<>> THEN 0
    ELSE DigitsValue(SubSeq(ds, 1, Len(ds) - 1)) * 10 + DigitVal(ds[Len(ds)])

IsDigits(s) == s # <<>> /\ \A i \in 1..Len(s) : s[i] \in Digits

\* int(s) succeeds: white space around, an optional sign, then digits
IntOK(s) ==
    LET t == Strip(s)
    IN  IF t # <<>> /\ t[1] \in {"+", "-"} THEN IsDigits(Tail(t)) ELSE IsDigits(t)

\* int(s) where it succeeds
IntValue(s) ==
    LET t == Strip(s)
    IN  IF t[1] = "-" THEN 0 - DigitsValue(Tail(t))
        ELSE IF t[1] = "+" THEN DigitsValue(Tail(t))
        ELSE DigitsValue(t)

-----------------------------------------------------------------------------
(* parse_gid *)

\* os.path.basename
Basename(path) == SubSeq(path, RFind(path, "/") + 1, Len(path))

\* the piece of the name int() is applied to: the first piece, not the last
GidTextFirstBracket(name) ==
    IF Contains(name, "[") /\ Contains(name, "]")
    THEN Remove(Split(name, "[")[2], "]")
    ELSE name

\* the piece of the name int() is applied to (lines 102-105)
GidText(name) ==
    IF Contains(name, "[") /\ Contains(name, "]")
    THEN LET pieces == Split(name, "[") IN Remove(pieces[Len(pieces)], "]")
    ELSE name

\* parse_gid returns (does not raise ValueError)
ParseGidOK(path) == IntOK(GidText(Basename(path)))

\* what parse_gid returns
ParseGidValue(path) == IntValue(GidText(Basename(path)))

NameAlphabet == {"a", " ", "[", "]", "0", "1", "/"}

FolderNames == SeqsUpTo(NameAlphabet, MaxNameLen)

-----------------------------------------------------------------------------
(* The tag list of a "Tags" header line (lines 146-155). *)

Untagged == <<"untagged">>

\* one token of the tag list, keeping an empty category as it is
ParseTagKeepEmpty(tag) ==
    IF Contains(tag, ":")
    THEN LET kv == SplitFirst(tag, ":") IN <<Strip(kv[1]), Strip(kv[2])>>
    ELSE <<Untagged, Strip(tag)>>

\* one token of the tag list (lines 148-155)
ParseTag(tag) ==
    IF Contains(tag, ":")
    THEN LET kv == SplitFirst(tag, ":")
         IN  IF Strip(kv[1]) # <<>>
             THEN <<Strip(kv[1]), Strip(kv[2])>>
             ELSE <<Untagged, Strip(kv[2])>>
    ELSE <<Untagged, Strip(tag)>>

\* the list built by the loop over value.split(",") (lines 146-155)
ParseTags(value) ==
    LET toks == Split(value, ",") IN [i \in 1..Len(toks) |-> ParseTag(toks[i])]

-----------------------------------------------------------------------------
(* datetime.datetime.strptime(value, "%Y-%m-%d %H:%M") *)

DateValue(d) ==
    CASE d = "2020-01-02" -> <<2020, 1, 2>>
      [] d = "2020-1-2"   -> <<2020, 1, 2>>
      [] d = "2021-03-04" -> <<2021, 3, 4>>
      [] OTHER            -> <<>>

ClockValue(c) ==
    CASE c = "03" -> <<3>>
      [] c = "3"  -> <<3>>
      [] c = "04" -> <<4>>
      [] OTHER    -> <<>>

\* strptime accepts anything
StrptimeAcceptsAll(v) == TRUE

\* strptime succeeds: a date, white space, hour ":" minute
StrptimeOK(v) ==
    /\ Len(v) >= 5
    /\ DateValue(v[1]) # <<>>
    /\ \A i \in 2..(Len(v) - 3) : v[i] = " "
    /\ ClockValue(v[Len(v) - 2]) # <<>>
    /\ v[Len(v) - 1] = ":"
    /\ ClockValue(v[Len(v)]) # <<>>

\* the datetime strptime returns, as <<year, month, day, hour, minute>>
StrptimeValue(v) ==
    IF Len(v) >= 5
    THEN DateValue(v[1]) \o ClockValue(v[Len(v) - 2]) \o ClockValue(v[Len(v)])
    ELSE <<>>

-----------------------------------------------------------------------------
(* The file and the folder parse_galleryinfo is given. *)

Marker == "Uploader's Comments"

Sentinel == "Downloaded from E-Hentai Galleries by the Hentai@Home Downloader <3"

\* file.read().strip("\n").split("\n") (line 121), of a file whose text is
\* the lines of raw joined with line feeds
FileLines(raw) == Split(StripNewlines(Join(raw, "\n")), "\n")

\* the beginning of a file: three of the header lines a downloader writes,
HeaderBlock ==
    << <<"Title", ":", " ", "a">>,
       <<"Uploaded By", ":", " ", "a">>,
       <<"Downloaded", ":", " ", "2020-01-02", " ", "03", ":", "04">> >>

\* ... all five of them,
FullHeader ==
    HeaderBlock \o
    << <<"Upload Time", ":", " ", "2020-1-2", " ", "3", ":", "04">>,
       <<"Tags", ":", " ", "a", ":", "b">> >>

\* ... and the marker with a first comment line
WithComment == FullHeader \o << <<Marker>>, <<"a", " ">> >>

Prefixes == {<<>>, HeaderBlock, FullHeader, WithComment}

\* the lines the rest of the file is made of
LineSet ==
    { <<"Title", ":", " ", "b", ":", "a">>,
      <<"Upload Time", ":", "bad">>,
      <<" ", "Upload Time", " ", ":", "2021-03-04", " ", " ", "3", ":", "04">>,
      <<"Downloaded", ":", " ", "03", ":", "04">>,
      <<"Tags", ":", " ", "a", ":", "b", ",", "b">>,
      <<" ", Marker, ":">>,
      <<Sentinel>>,
      <<Sentinel, " ">>,
      <<" ", "Uploaded By", " ", ":", "b">>,
      <<" ", "a", ":", "b", " ">>,
      <<>> }

RawFiles == {p \o f : p \in Prefixes, f \in SeqsUpTo(LineSet, MaxLines)}

ScanFolders == { <<"/", "a", " ", "[", "1", "0", "]">>, <<"/", "a">> }

RequiredLocals == {"title", "upload_time", "upload_account", "download_time", "tags"}

-----------------------------------------------------------------------------
(* parse_galleryinfo *)

Init ==
    /\ folder \in ScanFolders
    /\ \E raw \in RawFiles : lines = FileLines(raw)
    /\ pc = "start"
    /\ outcome = "running"
    /\ gid = 0
    /\ idx = 0
    /\ comments = FALSE
    /\ comment_lines = <<>>
    /\ bound = {}
    /\ title = <<>>
    /\ upload_time = <<>>
    /\ upload_account = <<>>
    /\ download_time = <<>>
    /\ tags = <<>>
    /\ galleries_comments = <<>>
    /\ result = <<>>
    /\ nfiles = 0
    /\ _pages = NotComputed
    /\ reads = <<>>
    /\ counted = 0

\* gid = parse_gid(gallery_folder) (line 124)
ParseGid ==
    /\ pc = "start"
    /\ IF ParseGidOK(folder)
       THEN /\ gid' = ParseGidValue(folder)
            /\ pc' = "scan"
            /\ outcome' = outcome
       ELSE /\ gid' = gid
            /\ pc' = "done"
            /\ outcome' = "ValueError@parse_gid"
    /\ UNCHANGED <<folder, scanvars, pagevars>>

\* the branch of the if/elif chain a line takes, the header test first
BranchHeaderFirst(line, inComments) ==
    IF Contains(line, Marker) THEN "marker"
    ELSE IF Contains(line, ":") THEN "header"
    ELSE IF inComments THEN "comment"
    ELSE "skip"

\* the branch of the if/elif chain a line takes (lines 131, 133, 140)
Branch(line, inComments) ==
    IF Contains(line, Marker) THEN "marker"
    ELSE IF inComments THEN "comment"
    ELSE IF Contains(line, ":") THEN "header"
    ELSE "skip"

\* strptime raises ValueError for this header line, "Downloaded" unchecked
TimestampRaisesUploadOnly(key, value) == key = <<"Upload Time">> /\ ~StrptimeOK(value)

\* strptime raises ValueError for this header line (lines 159, 163)
TimestampRaises(key, value) ==
    key \in {<<"Upload Time">>, <<"Downloaded">>} /\ ~StrptimeOK(value)

\* where the loop goes after the sentinel, were `break` a `continue`
AfterSentinelContinue(more) == IF more THEN "scan" ELSE "finish"

\* where the loop goes after the sentinel: `break` (line 138)
AfterSentinel(more) == "finish"

\* where the loop goes after any other line
AfterLine(more) == IF more THEN "scan" ELSE "finish"

\* one iteration of `for line in lines` (lines 130-163)
ScanLine ==
    /\ pc = "scan"
    /\ idx < Len(lines)
    /\ idx' = idx + 1
    /\ LET line == lines[idx + 1]
           more == idx + 1 < Len(lines)
           br   == Branch(line, comments)
           kv   == SplitFirst(line, ":")
           key  == Strip(kv[1])
           value == Strip(kv[2])
           raises == br = "header" /\ TimestampRaises(key, value)
       IN  /\ comments' = (comments \/ br = "marker")
           /\ comment_lines' =
                 IF br = "comment" /\ line # <<Sentinel>>
                 THEN Append(comment_lines, Strip(line))
                 ELSE comment_lines
           /\ pc' = IF raises THEN "done"
                    ELSE IF br = "comment" /\ line = <<Sentinel>> THEN AfterSentinel(more)
                    ELSE AfterLine(more)
           /\ outcome' = IF raises THEN "ValueError@strptime" ELSE outcome
           /\ tags' = IF br = "header" /\ key = <<"Tags">> THEN ParseTags(value) ELSE tags
           /\ title' = IF br = "header" /\ key = <<"Title">> THEN value ELSE title
           /\ upload_time' =
                 IF br = "header" /\ key = <<"Upload Time">> /\ ~raises
                 THEN StrptimeValue(value) ELSE upload_time
           /\ upload_account' =
                 IF br = "header" /\ key = <<"Uploaded By">> THEN value ELSE upload_account
           /\ download_time' =
                 IF br = "header" /\ key = <<"Downloaded">> /\ ~raises
                 THEN StrptimeValue(value) ELSE download_time
           /\ bound' =
                 IF br # "header" \/ raises THEN bound
                 ELSE IF key = <<"Tags">> THEN bound \cup {"tags"}
                 ELSE IF key = <<"Title">> THEN bound \cup {"title"}
                 ELSE IF key = <<"Upload Time">> THEN bound \cup {"upload_time"}
                 ELSE IF key = <<"Uploaded By">> THEN bound \cup {"upload_account"}
                 ELSE IF key = <<"Downloaded">> THEN bound \cup {"download_time"}
                 ELSE bound
    /\ UNCHANGED <<folder, gid, lines, galleries_comments, result, pagevars>>

\* every local the constructor call reads is taken as bound
AllBoundUnchecked == TRUE

\* every local the constructor call reads is bound (lines 173-178)
AllBound == RequiredLocals \subseteq bound

\* the comment text and the record (lines 165-179)
Finish ==
    /\ pc = "finish"
    /\ pc' = "done"
    /\ galleries_comments' = StripNewlines(Join(comment_lines, "\n"))
    /\ IF AllBound
       THEN /\ outcome' = "returned"
            /\ result' = << [gallery_folder |-> folder,
                             gallery_name |-> Basename(folder),
                             gid |-> gid,
                             title |-> title,
                             upload_time |-> upload_time,
                             galleries_comments |-> galleries_comments',
                             upload_account |-> upload_account,
                             download_time |-> download_time,
                             tags |-> tags] >>
       ELSE /\ outcome' = "UnboundLocalError"
            /\ result' = result
    /\ UNCHANGED <<folder, gid, lines, idx, comments, comment_lines, bound, title,
                   upload_time, upload_account, download_time, tags, pagevars>>

Next == ParseGid \/ ScanLine \/ Finish

Spec == Init /\ [][Next]_vars

-----------------------------------------------------------------------------
(* parse_gid called on its own, over every folder path up to MaxNameLen. *)

InitGid ==
    /\ folder \in FolderNames
    /\ pc = "call"
    /\ outcome = "running"
    /\ gid = 0
    /\ lines = << <<>> >>
    /\ idx = 0
    /\ comments = FALSE
    /\ comment_lines = <<>>
    /\ bound = {}
    /\ title = <<>>
    /\ upload_time = <<>>
    /\ upload_account = <<>>
    /\ download_time = <<>>
    /\ tags = <<>>
    /\ galleries_comments = <<>>
    /\ result = <<>>
    /\ nfiles = 0
    /\ _pages = NotComputed
    /\ reads = <<>>
    /\ counted = 0

\* parse_gid(gallery_folder) (lines 91-106)
CallParseGid ==
    /\ pc = "call"
    /\ pc' = "done"
    /\ IF ParseGidOK(folder)
       THEN /\ gid' = ParseGidValue(folder)
            /\ outcome' = "returned"
       ELSE /\ gid' = gid
            /\ outcome' = "ValueError@parse_gid"
    /\ UNCHANGED <<folder, scanvars, pagevars>>

NextGid == CallParseGid

SpecGid == InitGid /\ [][NextGid]_vars

-----------------------------------------------------------------------------
(* parse_galleryinfo on files whose one line is a "Tags" header line, over *)
(* every text of the line up to MaxTagLen.                                 *)

TagAlphabet == {"a", "b", " ", ":", ","}

InitTags ==
    /\ folder = <<"1", "0">>
    /\ \E t \in SeqsUpTo(TagAlphabet, MaxTagLen) : lines = FileLines(<< <<"Tags", ":">> \o t >>)
    /\ pc = "start"
    /\ outcome = "running"
    /\ gid = 0
    /\ idx = 0
    /\ comments = FALSE
    /\ comment_lines = <<>>
    /\ bound = {}
    /\ title = <<>>
    /\ upload_time = <<>>
    /\ upload_account = <<>>
    /\ download_time = <<>>
    /\ tags = <<>>
    /\ galleries_comments = <<>>
    /\ result = <<>>
    /\ nfiles = 0
    /\ _pages = NotComputed
    /\ reads = <<>>
    /\ counted = 0

SpecTags == InitTags /\ [][Next]_vars

-----------------------------------------------------------------------------
(* GalleryInfoParser.pages, read while files come and go in the folder. *)

\* a record just constructed (line 76); galleryinfo.txt is among the files
InitPages ==
    /\ nfiles \in 1..MaxFiles
    /\ _pages = NotComputed
    /\ reads = <<>>
    /\ counted = 0
    /\ folder = <<"1", "0">>
    /\ pc = "record"
    /\ outcome = "returned"
    /\ gid = 10
    /\ lines = << <<>> >>
    /\ idx = 0
    /\ comments = FALSE
    /\ comment_lines = <<>>
    /\ bound = {}
    /\ title = <<>>
    /\ upload_time = <<>>
    /\ upload_account = <<>>
    /\ download_time = <<>>
    /\ tags = <<>>
    /\ galleries_comments = <<>>
    /\ result = <<>>

\* a regular file appears in the gallery folder
AddFile ==
    /\ nfiles < MaxFiles
    /\ nfiles' = nfiles + 1
    /\ UNCHANGED <<folder, pc, outcome, gid, scanvars, _pages, reads, counted>>

\* a regular file of the gallery folder is removed
RemoveFile ==
    /\ nfiles > 0
    /\ nfiles' = nfiles - 1
    /\ UNCHANGED <<folder, pc, outcome, gid, scanvars, _pages, reads, counted>>

\* count_files_in_directory(self.gallery_folder) (lines 8-15)
count_files_in_directory == nfiles

\* one read of the property `pages` (lines 78-82)
ReadPages ==
    /\ Len(reads) < MaxReads
    /\ IF _pages = NotComputed
       THEN /\ _pages' = count_files_in_directory - 1
            /\ counted' = counted + 1
       ELSE /\ _pages' = _pages
            /\ counted' = counted
    /\ reads' = Append(reads, _pages')
    /\ UNCHANGED <<folder, pc, outcome, gid, scanvars, nfiles>>

NextPages == AddFile \/ RemoveFile \/ ReadPages

SpecPages == InitPages /\ [][NextPages]_vars

-----------------------------------------------------------------------------
(* What the properties below say about the input, read off `folder` and    *)
(* `lines` alone.                                                          *)

Min(a, b) == IF a <= b THEN a ELSE b

\* index of the first line that contains the marker; Len(lines) + 1 if none
FirstMarker ==
    IF \E i \in 1..Len(lines) : Contains(lines[i], Marker)
    THEN CHOOSE i \in 1..Len(lines) :
            /\ Contains(lines[i], Marker)
            /\ \A j \in 1..(i - 1) : ~Contains(lines[j], Marker)
    ELSE Len(lines) + 1

\* index of the first sentinel line after line m; Len(lines) + 1 if none
SentinelAfter(m) ==
    IF \E i \in (m + 1)..Len(lines) : lines[i] = <<Sentinel>>
    THEN CHOOSE i \in (m + 1)..Len(lines) :
            /\ lines[i] = <<Sentinel>>
            /\ \A j \in (m + 1)..(i - 1) : lines[j] # <<Sentinel>>
    ELSE Len(lines) + 1

\* index of the first sentinel line after the marker; Len(lines) + 1 if none
FirstSentinel == SentinelAfter(FirstMarker)

\* the text before the first ":" of a line, trimmed
KeyOf(line) == Strip(SubSeq(line, 1, Find(line, ":") - 1))

\* the text after the first ":" of a line, trimmed
ValueOf(line) == Strip(SubSeq(line, Find(line, ":") + 1, Len(line)))

\* the lines among the first n, before line m, that have ":" and the key `label`
LinesFor(label, n, m) ==
    {i \in 1..Min(n, m - 1) : Contains(lines[i], ":") /\ KeyOf(lines[i]) = <<label>>}

\* the lines among the first n that are HEADER-state lines for a label
HeaderLinesFor(label, n) == LinesFor(label, n, FirstMarker)

Last(S) == CHOOSE i \in S : \A j \in S : j <= i

\* a timestamp text of the fixed format: date, blanks, hour ":" minute
WellFormedTime(v) ==
    /\ Len(v) >= 5
    /\ v[1] \in {"2020-01-02", "2020-1-2", "2021-03-04"}
    /\ \A i \in 2..(Len(v) - 3) : v[i] = " "
    /\ v[Len(v) - 2] \in {"03", "3", "04"}
    /\ v[Len(v) - 1] = ":"
    /\ v[Len(v)] \in {"03", "3", "04"}

\* line i has ":", a timestamp label and a malformed value
BadTimeLine(i) ==
    /\ Contains(lines[i], ":")
    /\ KeyOf(lines[i]) \in {<<"Upload Time">>, <<"Downloaded">>}
    /\ ~WellFormedTime(ValueOf(lines[i]))

\* the HEADER-state lines with a timestamp label and a malformed value
BadTimeLines == {i \in 1..(FirstMarker - 1) : BadTimeLine(i)}

\* the lines i..j, each trimmed; with dropMarkerLines, those without the marker
RECURSIVE TrimmedLines(_, _, _)
TrimmedLines(i, j, dropMarkerLines) ==
    IF i > j THEN <<>>
    ELSE IF dropMarkerLines /\ Contains(lines[i], Marker)
         THEN TrimmedLines(i + 1, j, dropMarkerLines)
         ELSE <<Strip(lines[i])>> \o TrimmedLines(i + 1, j, dropMarkerLines)

-----------------------------------------------------------------------------
(* C1: parse_gid returns N for every folder path whose basename ends in    *)
(* "[N]" after any text X (so for every "X [N]"), and returns the integer  *)
(* for every basename that is itself a sequence of digits.                 *)
C1_GidForms ==
    pc = "done" =>
        LET name == Basename(folder)
        IN  /\ \A k \in 1..Len(name) :
                 (/\ name[k] = "["
                  /\ name[Len(name)] = "]"
                  /\ IsDigits(SubSeq(name, k + 1, Len(name) - 1)))
                 => (/\ outcome = "returned"
                     /\ gid = DigitsValue(SubSeq(name, k + 1, Len(name) - 1)))
            /\ IsDigits(name) => (outcome = "returned" /\ gid = DigitsValue(name))

\* parse_gid has returned 1 for "[ [01]" style names: X itself holds a bracket
C1_Witness ==
    /\ pc = "done"
    /\ outcome = "returned"
    /\ Basename(folder) = <<"[", " ", "[", "1", "]">>
    /\ gid = 1

(* C2: parse_gid raises for every basename that is neither an integer      *)
(* string nor a text whose part between the last "[" and a trailing "]"    *)
(* is an integer.                                                          *)
C2_Accepted(name) ==
    \/ IntOK(name)
    \/ /\ Contains(name, "[")
       /\ name[Len(name)] = "]"
       /\ IntOK(SubSeq(name, RFind(name, "[") + 1, Len(name) - 1))

C2_OtherNamesFail ==
    (pc = "done" /\ ~C2_Accepted(Basename(folder))) => outcome = "ValueError@parse_gid"

-----------------------------------------------------------------------------
(* C3: the tag list has one pair per comma-separated token of the Tags     *)
(* value, in order, duplicates kept; a token with ":" gives the trimmed    *)
(* texts before and after its first ":", a token without gives             *)
(* ("untagged", trimmed token), an empty category becomes "untagged", and  *)
(* no pair has an empty category.                                          *)
C3_Commas(v) == {i \in 1..Len(v) : v[i] = ","}

\* position of the k-th comma of v; 0 for k = 0, Len(v) + 1 past the last
C3_Comma(v, k) ==
    IF k = 0 THEN 0
    ELSE IF k > Cardinality(C3_Commas(v)) THEN Len(v) + 1
    ELSE CHOOSE i \in C3_Commas(v) : Cardinality({j \in C3_Commas(v) : j < i}) = k - 1

C3_Token(v, k) == SubSeq(v, C3_Comma(v, k - 1) + 1, C3_Comma(v, k) - 1)

C3_Pair(tok) ==
    IF Contains(tok, ":")
    THEN LET c   == Find(tok, ":")
             cat == Strip(SubSeq(tok, 1, c - 1))
         IN  <<IF cat = <<>> THEN Untagged ELSE cat, Strip(SubSeq(tok, c + 1, Len(tok)))>>
    ELSE <<Untagged, Strip(tok)>>

-----------------------------------------------------------------------------
C5_AllLinesBuffered ==
    LET m == FirstMarker
    IN  comment_lines = TrimmedLines(m + 1, Min(idx, SentinelAfter(m) - 1), FALSE)

-----------------------------------------------------------------------------
(* C6: when the loop has ended and one of Title, Upload Time, Uploaded By, *)
(* Downloaded has no HEADER-state line, parse_galleryinfo raises and       *)
(* returns no record.                                                      *)
C6_Labels == {"Title", "Upload Time", "Uploaded By", "Downloaded"}

C6_MissingFieldRaises ==
    (/\ pc = "done"
     /\ outcome \notin {"ValueError@parse_gid", "ValueError@strptime"}
     /\ LET m == FirstMarker IN \E l \in C6_Labels : LinesFor(l, Len(lines), m) = {})
    => (outcome = "UnboundLocalError" /\ result = <<>>)

\* only Upload Time is missing: the other three labels and Tags were read
C6_Witness ==
    /\ pc = "done"
    /\ outcome = "UnboundLocalError"
    /\ result = <<>>
    /\ HeaderLinesFor("Upload Time", Len(lines)) = {}
    /\ bound = {"title", "upload_account", "download_time", "tags"}

(* C7: for a resolvable folder name and a file whose HEADER lines supply   *)
(* the four required labels with well-formed timestamps, a record is       *)
(* returned, with or without a Tags line.                                  *)
C7_RecordWithoutTags ==
    (/\ pc = "done"
     /\ ParseGidOK(folder)
     /\ LET m == FirstMarker IN \A l \in C6_Labels : LinesFor(l, Len(lines), m) # {}
     /\ BadTimeLines = {})
    => (outcome = "returned" /\ result # <<>>)

-----------------------------------------------------------------------------
(* C9: with the folder name resolved, parse_galleryinfo ends in the        *)
(* timestamp error, and returns no record, exactly when some HEADER-state  *)
(* line has key "Upload Time" or "Downloaded" and a malformed value,       *)
(* whatever later lines hold; such a line after the marker raises nothing. *)
C9_BadTimestampFails ==
    (pc = "done" /\ outcome # "ValueError@parse_gid") =>
        LET bad == BadTimeLines
        IN  /\ bad # {} => (outcome = "ValueError@strptime" /\ result = <<>>)
            /\ bad = {} => outcome # "ValueError@strptime"

\* a malformed "Downloaded" line raised although a well-formed one preceded it
C9_Witness ==
    /\ pc = "done"
    /\ outcome = "ValueError@strptime"
    /\ "download_time" \in bound
    /\ idx \in BadTimeLines
    /\ idx < Len(lines)

-----------------------------------------------------------------------------
(* C10: the scanner is in COMMENT exactly from the first line containing   *)
(* the marker on, and title, upload time, uploader account, download time  *)
(* and tags always hold the value of the last matching HEADER-state line   *)
(* taken before the marker, whatever lines follow the marker.              *)
C10_Text(v) == v

C10_FieldIs(label, local, field, Conv(_), m) ==
    LET S == {i \in LinesFor(label, idx, m) : ~BadTimeLine(i)}
    IN  IF S = {} THEN local \notin bound
        ELSE local \in bound /\ field = Conv(ValueOf(lines[Last(S)]))

C10_HeaderOnly ==
    LET m == FirstMarker
    IN  /\ pc = "start" => ~comments /\ bound = {}
        /\ comments = (m <= idx)
        /\ C10_FieldIs("Title", "title", title, C10_Text, m)
        /\ C10_FieldIs("Uploaded By", "upload_account", upload_account, C10_Text, m)
        /\ C10_FieldIs("Upload Time", "upload_time", upload_time, StrptimeValue, m)
        /\ C10_FieldIs("Downloaded", "download_time", download_time, StrptimeValue, m)
        /\ C10_FieldIs("Tags", "tags", tags, ParseTags, m)

\* a "Title: ..." line with another value was taken after the marker
C10_Witness ==
    /\ comments
    /\ idx > FirstMarker
    /\ Contains(lines[idx], ":")
    /\ KeyOf(lines[idx]) = <<"Title">>
    /\ "title" \in bound
    /\ title # ValueOf(lines[idx])
    /\ result # <<>>

-----------------------------------------------------------------------------
(* C8: every read of `pages` returns what the first read returned, and the *)
(* directory is counted at most once.                                      *)
C8_PagesStable ==
    /\ \A i \in 1..Len(reads) : reads[i] = reads[1]
    /\ counted <= 1

====
